---- MODULE Spec2Model ----
(***************************************************************************)
(* A model of qpsolvers/qpoases_.py: the adapter qpoases_solve_qp, which   *)
(* reshapes a quadratic program (P, q, G, h, A, b) into the calling        *)
(* convention of the qpOASES active-set solver, runs it and extracts the   *)
(* primal solution.  The native solver is an external collaborator: its    *)
(* behaviour on a problem (return status, iterations reported through the  *)
(* cap cell, primal solution held) is an input drawn per call.             *)
(***************************************************************************)
EXTENDS Integers, Sequences, FiniteSets, TLC

(***************************************************************************)
(* Bounds of the model.                                                    *)
(***************************************************************************)
MaxN == 2
MaxRows == 2
MaxCalls == 2

(***************************************************************************)
(* Python values.  None and unbound local names are tagged records, numpy  *)
(* arrays carry their data: a vector is a sequence of numbers, a matrix a  *)
(* sequence of rows.                                                       *)
(***************************************************************************)
None == [tag |-> "None"]
Unbound == [tag |-> "unbound"]
Arr(d) == [tag |-> "ndarray", data |-> d]

(***************************************************************************)
(* Floating-point numbers of the bound vectors, in decimal scientific      *)
(* form m * 10^e (1e10 does not fit the model checker's integers).         *)
(***************************************************************************)
Num(v) == [m |-> v, e |-> 0]
Neg(x) == [m |-> 0 - x.m, e |-> x.e]
Mul(x, y) == [m |-> x.m * y.m, e |-> x.e + y.e]

\* __infty = 1e10
infty == [m |-> 1, e |-> 10]

\* numpy.ones(k), numpy.zeros(k), scalar * array, hstack, vstack
ones(k) == Arr([i \in 1..k |-> Num(1)])
zeros(k) == Arr([i \in 1..k |-> 0])
ScalarMul(s, a) == Arr([i \in 1..Len(a.data) |-> Mul(s, a.data[i])])
hstack(a1, a2) == Arr(a1.data \o a2.data)
vstack2(a1, a2) == Arr(a1.data \o a2.data)
vstack3(a1, a2, a3) == Arr(a1.data \o a2.data \o a3.data)
\* a.shape[0]
shape0(a) == Len(a.data)

\* qpoases.PyPrintLevel, qpoases.PyReturnValue
PrintLevelNONE == "PL_NONE"
PrintLevelDefault == "PL_MEDIUM"
SUCCESSFUL_RETURN == "SUCCESSFUL_RETURN"
MAX_NWSR_REACHED == "RET_MAX_NWSR_REACHED"
INIT_FAILED == "RET_INIT_FAILED"

\* array([100]): the cap on working set recalculations
InitialNWSR == 100

\* the module-level options object after import
ModuleOptions == [printLevel |-> PrintLevelNONE]

WarmStartMsg == [msg |-> "warm-start values ignored by qpOASES wrapper", arg |-> 0]
MaxWsrMsg(k) == [msg |-> "qpOASES reached the maximum number of WSR", arg |-> k]


(***************************************************************************)
(* The adapter's pure steps (qpoases_solve_qp, lines 84-101).              *)
(***************************************************************************)

\* the warm-start warning dropped
warm_start_warnings_dropped(initvals) == <<>>

\* lines 84-85: the warnings raised for the warm-start argument
warm_start_warnings(initvals) == IF initvals # None THEN <<WarmStartMsg>> ELSE <<>>

\* the equality constraints forgotten in the dispatch
has_cons_G_only(G, A) == G # None

\* line 89
has_cons(G, A) == G # None \/ A # None

\* lines 90-101, the constraint matrix C (unbound when no branch is taken)
build_C(G, A) ==
    IF G # None /\ A = None THEN G
    ELSE IF G = None /\ A # None THEN vstack2(A, A)
    ELSE IF G # None /\ A # None THEN vstack3(G, A, A)
    ELSE Unbound

\* the sign of the sentinel lost
build_lb_C_positive(G, h, A, b) ==
    IF G # None /\ A = None THEN None
    ELSE IF G = None /\ A # None THEN h
    ELSE IF G # None /\ A # None
         THEN hstack(ScalarMul(infty, ones(shape0(h))), b)
    ELSE Unbound

\* lines 90-101, the constraint lower bound lb_C
build_lb_C(G, h, A, b) ==
    IF G # None /\ A = None THEN None
    ELSE IF G = None /\ A # None THEN h
    ELSE IF G # None /\ A # None
         THEN hstack(ScalarMul(Neg(infty), ones(shape0(h))), b)
    ELSE Unbound

\* b taken for h in the inequality-only branch
build_ub_C_swapped(G, h, A, b) ==
    IF G # None /\ A = None THEN b
    ELSE IF G = None /\ A # None THEN h
    ELSE IF G # None /\ A # None THEN hstack(h, b)
    ELSE Unbound

\* lines 90-101, the constraint upper bound ub_C
build_ub_C(G, h, A, b) ==
    IF G # None /\ A = None THEN h
    ELSE IF G = None /\ A # None THEN h
    ELSE IF G # None /\ A # None THEN hstack(h, b)
    ELSE Unbound

\* the array of the previous call used again
nb_wsr_array_reused(prev) == IF prev < 0 THEN <<InitialNWSR>> ELSE <<prev>>

\* line 88: nb_wsr = array([100]), a new array on every call, whatever the
\* array of the previous call (prev: what it held at return, -1 for none) held
nb_wsr_array(prev) == <<InitialNWSR>>

\* line 87: lb, ub = None, None
variable_bounds == [lb |-> None, ub |-> None]

(***************************************************************************)
(* The native solver, as the adapter sees it.  A solver object records its *)
(* variant, dimensions, print level, the status of its last init, the      *)
(* primal solution it holds and how many times it was run.                 *)
(***************************************************************************)
FreeSolver == [variant |-> "free", nV |-> 0, nC |-> 0, printLevel |-> PrintLevelDefault,
               status |-> "NOT_INITIALISED", x |-> <<>>, ninit |-> 0]

\* QProblem(n, nC), QProblemB(n)
QProblem(nV, nC) == [FreeSolver EXCEPT !.variant = "QProblem", !.nV = nV, !.nC = nC,
                                       !.x = zeros(nV).data]
QProblemB(nV) == [FreeSolver EXCEPT !.variant = "QProblemB", !.nV = nV,
                                    !.x = zeros(nV).data]

\* qp.setOptions(opts): the solver copies the options it is given
setOptions(solver, opts) == [solver EXCEPT !.printLevel = opts.printLevel]

\* what init leaves in the cap cell: the iterations used, which is the cap
\* itself when the cap was reached
nwsr_after(cap, orc) == IF orc.status = MAX_NWSR_REACHED THEN cap ELSE orc.nWSR

\* qp.init(...): the solver after the run
init_solver(solver, orc) ==
    [solver EXCEPT !.status = orc.status, !.x = orc.x, !.ninit = solver.ninit + 1]

\* qp.getPrimalSolution(x_opt): the data written into x_opt
getPrimalSolution(solver) == solver.x

(***************************************************************************)
(* The solver calls the adapter makes, as the solver observes them.        *)
(***************************************************************************)
CtorCall(hc, n, Cm) ==
    IF hc THEN [f |-> "QProblem", nV |-> n, nC |-> shape0(Cm)]
    ELSE [f |-> "QProblemB", nV |-> n, nC |-> 0]

SetOptionsCall(opts) == [f |-> "setOptions", printLevel |-> opts.printLevel]

\* line 105: qp.init(P, q, C, lb, ub, lb_C, ub_C, nb_wsr)
\* line 111: qp.init(P, q, lb, ub, nb_wsr)
InitCall(hc, pr, lbub, Cm, lbC, ubC, cap) ==
    IF hc
    THEN [f |-> "init", P |-> pr.P, q |-> pr.q, C |-> Cm, lb |-> lbub.lb, ub |-> lbub.ub,
          lb_C |-> lbC, ub_C |-> ubC, nWSR |-> cap]
    ELSE [f |-> "initB", P |-> pr.P, q |-> pr.q, C |-> Unbound, lb |-> lbub.lb,
          ub |-> lbub.ub, lb_C |-> Unbound, ub_C |-> Unbound, nWSR |-> cap]

GetPrimalCall == [f |-> "getPrimalSolution"]

\* lines 106-107 (the constrained path alone checks the return value)
max_wsr_warnings(hc, return_value, nwsr) ==
    IF hc /\ return_value = MAX_NWSR_REACHED THEN <<MaxWsrMsg(nwsr)>> ELSE <<>>

(***************************************************************************)
(* qpoases_solve_qp run alone, start to end (lines 84-114): the warnings   *)
(* raised, the solver calls made and the value returned.                   *)
(***************************************************************************)
qpoases_solve_qp(pr, orc) ==
    LET hc == has_cons(pr.G, pr.A)
        Cm == build_C(pr.G, pr.A)
        lbC == build_lb_C(pr.G, pr.h, pr.A, pr.b)
        ubC == build_ub_C(pr.G, pr.h, pr.A, pr.b)
        qp0 == IF hc THEN QProblem(shape0(pr.P), shape0(Cm)) ELSE QProblemB(shape0(pr.P))
        qp1 == init_solver(setOptions(qp0, ModuleOptions), orc)
    IN  [warnings |-> warm_start_warnings(pr.initvals)
                      \o max_wsr_warnings(hc, orc.status, nwsr_after(InitialNWSR, orc)),
         calls |-> <<CtorCall(hc, shape0(pr.P), Cm), SetOptionsCall(ModuleOptions),
                     InitCall(hc, pr, variable_bounds, Cm, lbC, ubC, InitialNWSR),
                     GetPrimalCall>>,
         result |-> Arr(getPrimalSolution(qp1))]


(***************************************************************************)
(* Inputs.  P is n x n; G and h are jointly present or absent, h with      *)
(* rows(G) entries; likewise A and b.                                      *)
(***************************************************************************)
Identity(n) == Arr([i \in 1..n |-> [j \in 1..n |-> IF i = j THEN 1 ELSE 0]])
Matrices(n) == {Arr([i \in 1..m |-> [j \in 1..n |-> v + i]]) : m \in 1..MaxRows, v \in {0, 1}}
Vectors(m) == {Arr([i \in 1..m |-> Num(v + i)]) : v \in {-3, 4}}
Constraints(n) == {[M |-> None, v |-> None]}
                  \cup UNION {{[M |-> M, v |-> v] : v \in Vectors(shape0(M))} : M \in Matrices(n)}
ProblemsOf(n) == {[P |-> Identity(n), q |-> zeros(n), G |-> g.M, h |-> g.v, A |-> a.M,
                   b |-> a.v, initvals |-> iv] :
                     g \in Constraints(n), a \in Constraints(n), iv \in {None, zeros(n)}}
Problems == UNION {ProblemsOf(n) : n \in 1..MaxN}

\* how the native solver behaves on the problem of a call
Oracles(n) == {[status |-> SUCCESSFUL_RETURN, nWSR |-> 1, x |-> [i \in 1..n |-> v]] : v \in {1, 2}}
              \cup {[status |-> MAX_NWSR_REACHED, nWSR |-> InitialNWSR, x |-> [i \in 1..n |-> v]] : v \in {1, 2}}
              \cup {[status |-> INIT_FAILED, nWSR |-> 1, x |-> [i \in 1..n |-> v]] : v \in {0, 1}}

\* the inputs of the concurrent runs: the four configurations, on one variable
ConcProblems == {pr \in ProblemsOf(1) : /\ pr.initvals = None
                                        /\ pr.G \in {None, Arr(<<<<1>>>>)}
                                        /\ pr.h \in {None, Arr(<<Num(-2)>>)}
                                        /\ pr.A \in {None, Arr(<<<<2>>>>)}
                                        /\ pr.b \in {None, Arr(<<Num(5)>>)}}
ConcOracles(n) == {o \in Oracles(n) : \/ o.status = SUCCESSFUL_RETURN /\ o.x[1] = 1
                                      \/ o.status = MAX_NWSR_REACHED /\ o.x[1] = 2}

Inputs == UNION {{[pr |-> p, orc |-> o] : o \in Oracles(shape0(p.P))} : p \in Problems}
ConcInputs == UNION {{[pr |-> p, orc |-> o] : o \in ConcOracles(shape0(p.P))} : p \in ConcProblems}

(***************************************************************************)
(* State.                                                                  *)
(***************************************************************************)
Threads == {"t1", "t2"}
MainThread == {"t1"}
ArrIds == 1..(2 * Cardinality(Threads))
SolverIds == 1..Cardinality(Threads)

VARIABLES
    options,    \* the module-level options object (lines 31-32)
    arrays,     \* the numpy arrays the calls allocate: nb_wsr and x_opt
    solvers,    \* the solver objects the calls construct
    pc,         \* where each thread's call stands
    args,       \* the arguments of each thread's call
    oracle,     \* how the native solver behaves on that call's problem
    locals,     \* the local names of each thread's call
    warnings,   \* the warnings each call has raised
    calls,      \* the solver calls each call has made
    result,     \* the value each call returns
    ncalls,     \* the calls each thread has completed
    lastNWSR    \* what the cap cell of the thread's previous call held at return

vars == <<options, arrays, solvers, pc, args, oracle, locals, warnings, calls, result,
          ncalls, lastNWSR>>

NoProblem == [P |-> None, q |-> None, G |-> None, h |-> None, A |-> None, b |-> None,
              initvals |-> None]
NoOracle == [status |-> "none", nWSR |-> 0, x |-> <<>>]
NoFrame == [n |-> 0, lb |-> Unbound, ub |-> Unbound, nb_wsr |-> 0, has_cons |-> FALSE,
            C |-> Unbound, lb_C |-> Unbound, ub_C |-> Unbound, qp |-> 0,
            return_value |-> "unbound", x_opt |-> 0]
FreeArray == <<>>

\* one solver object kept for all calls
AllocSolver_shared(hp) == 1

\* a new object never aliases a live one
AllocArray(hp) == CHOOSE i \in ArrIds : hp[i] = FreeArray /\ \A j \in 1..(i - 1) : hp[j] # FreeArray
AllocSolver(hp) == CHOOSE i \in SolverIds : hp[i] = FreeSolver /\ \A j \in 1..(i - 1) : hp[j] # FreeSolver

\* lines 30-32
Init ==
    /\ options = ModuleOptions
    /\ arrays = [i \in ArrIds |-> FreeArray]
    /\ solvers = [i \in SolverIds |-> FreeSolver]
    /\ pc = [t \in Threads |-> "idle"]
    /\ args = [t \in Threads |-> NoProblem]
    /\ oracle = [t \in Threads |-> NoOracle]
    /\ locals = [t \in Threads |-> NoFrame]
    /\ warnings = [t \in Threads |-> <<>>]
    /\ calls = [t \in Threads |-> <<>>]
    /\ result = [t \in Threads |-> Unbound]
    /\ ncalls = [t \in Threads |-> 0]
    /\ lastNWSR = [t \in Threads |-> -1]

\* lines 84-101: the call is entered and the constraint block is built
Call(t, inputs) ==
    /\ pc[t] = "idle"
    /\ ncalls[t] < MaxCalls
    /\ \E in \in inputs :
          LET pr == in.pr
              cell == AllocArray(arrays)
              lbub == variable_bounds
          IN  /\ args' = [args EXCEPT ![t] = pr]
              /\ oracle' = [oracle EXCEPT ![t] = in.orc]
              /\ warnings' = [warnings EXCEPT ![t] = warm_start_warnings(pr.initvals)]
              /\ arrays' = [arrays EXCEPT ![cell] = nb_wsr_array(lastNWSR[t])]
              /\ locals' = [locals EXCEPT ![t] =
                    [NoFrame EXCEPT !.n = shape0(pr.P), !.lb = lbub.lb, !.ub = lbub.ub,
                                    !.nb_wsr = cell,
                                    !.has_cons = has_cons(pr.G, pr.A),
                                    !.C = build_C(pr.G, pr.A),
                                    !.lb_C = build_lb_C(pr.G, pr.h, pr.A, pr.b),
                                    !.ub_C = build_ub_C(pr.G, pr.h, pr.A, pr.b)]]
    /\ calls' = [calls EXCEPT ![t] = <<>>]
    /\ result' = [result EXCEPT ![t] = Unbound]
    /\ pc' = [pc EXCEPT ![t] = "construct"]
    /\ UNCHANGED <<options, solvers, ncalls, lastNWSR>>

\* lines 103 and 109: the solver variant is instantiated
Construct(t) ==
    /\ pc[t] = "construct"
    /\ LET f == locals[t]
           id == AllocSolver(solvers)
       IN  /\ solvers' = [solvers EXCEPT ![id] =
                 IF f.has_cons THEN QProblem(f.n, shape0(f.C)) ELSE QProblemB(f.n)]
           /\ locals' = [locals EXCEPT ![t].qp = id]
           /\ calls' = [calls EXCEPT ![t] = Append(@, CtorCall(f.has_cons, f.n, f.C))]
    /\ pc' = [pc EXCEPT ![t] = "setOptions"]
    /\ UNCHANGED <<options, arrays, args, oracle, warnings, result, ncalls, lastNWSR>>

\* lines 104 and 110: qp.setOptions(options)
SetOptions(t) ==
    /\ pc[t] = "setOptions"
    /\ solvers' = [solvers EXCEPT ![locals[t].qp] = setOptions(@, options)]
    /\ calls' = [calls EXCEPT ![t] = Append(@, SetOptionsCall(options))]
    /\ pc' = [pc EXCEPT ![t] = "init"]
    /\ UNCHANGED <<options, arrays, args, oracle, locals, warnings, result, ncalls, lastNWSR>>

\* lines 105 and 111: qp.init runs the solver, which reports the iterations
\* it used through the cap cell; the bounds-only path drops the return value
InitRun(t) ==
    /\ pc[t] = "init"
    /\ LET f == locals[t]
           cap == arrays[f.nb_wsr][1]
       IN  /\ solvers' = [solvers EXCEPT ![f.qp] = init_solver(@, oracle[t])]
           /\ arrays' = [arrays EXCEPT ![f.nb_wsr] = <<nwsr_after(cap, oracle[t])>>]
           /\ locals' = [locals EXCEPT ![t].return_value =
                 IF f.has_cons THEN oracle[t].status ELSE @]
           /\ calls' = [calls EXCEPT ![t] = Append(@,
                 InitCall(f.has_cons, args[t], [lb |-> f.lb, ub |-> f.ub], f.C, f.lb_C,
                          f.ub_C, cap))]
    /\ pc' = [pc EXCEPT ![t] = "extract"]
    /\ UNCHANGED <<options, args, oracle, warnings, result, ncalls, lastNWSR>>

\* lines 106-107 and 112-114: the cap warning, x_opt and the return value
Extract(t) ==
    /\ pc[t] = "extract"
    /\ LET f == locals[t]
           x == AllocArray(arrays)
       IN  /\ warnings' = [warnings EXCEPT ![t] =
                 @ \o max_wsr_warnings(f.has_cons, f.return_value, arrays[f.nb_wsr][1])]
           /\ arrays' = [arrays EXCEPT ![x] = getPrimalSolution(solvers[f.qp])]
           /\ locals' = [locals EXCEPT ![t].x_opt = x]
           /\ result' = [result EXCEPT ![t] = Arr(arrays'[x])]
    /\ calls' = [calls EXCEPT ![t] = Append(@, GetPrimalCall)]
    /\ pc' = [pc EXCEPT ![t] = "done"]
    /\ UNCHANGED <<options, solvers, args, oracle, ncalls, lastNWSR>>

\* the call returns: its frame and the objects it alone referenced are gone
Return(t) ==
    /\ pc[t] = "done"
    /\ LET f == locals[t]
       IN  /\ lastNWSR' = [lastNWSR EXCEPT ![t] = arrays[f.nb_wsr][1]]
           /\ arrays' = [arrays EXCEPT ![f.nb_wsr] = FreeArray, ![f.x_opt] = FreeArray]
           /\ solvers' = [solvers EXCEPT ![f.qp] = FreeSolver]
    /\ locals' = [locals EXCEPT ![t] = NoFrame]
    /\ args' = [args EXCEPT ![t] = NoProblem]
    /\ oracle' = [oracle EXCEPT ![t] = NoOracle]
    /\ warnings' = [warnings EXCEPT ![t] = <<>>]
    /\ calls' = [calls EXCEPT ![t] = <<>>]
    /\ result' = [result EXCEPT ![t] = Unbound]
    /\ ncalls' = [ncalls EXCEPT ![t] = @ + 1]
    /\ pc' = [pc EXCEPT ![t] = "idle"]
    /\ UNCHANGED options

\* calls made one after the other
Next ==
    \E t \in MainThread :
        \/ Call(t, Inputs)
        \/ Construct(t)
        \/ SetOptions(t)
        \/ InitRun(t)
        \/ Extract(t)
        \/ Return(t)

Spec == Init /\ [][Next]_vars

\* calls made by concurrent threads, interleaved at the solver calls
NextConc ==
    \E t \in Threads :
        \/ Call(t, ConcInputs)
        \/ Construct(t)
        \/ SetOptions(t)
        \/ InitRun(t)
        \/ Extract(t)
        \/ Return(t)

SpecConc == Init /\ [][NextConc]_vars


(***************************************************************************)
(* Properties.                                                             *)
(***************************************************************************)
\* the call of t has run the solver: calls[t][3] is its init call
Ran(t) == pc[t] \in {"extract", "done"}
InitArgs(t) == calls[t][3]
NegInfty == [m |-> -1, e |-> 10]
From(v, k) == SubSeq(v, k + 1, Len(v))

\* C1: equality only (G, h absent; A, b given): the solver is given
\* C = [A; A], constraint lower bound b and constraint upper bound b.
C1_EqualityOnlyBlock ==
    \A t \in Threads :
        (Ran(t) /\ args[t].G = None /\ args[t].A # None) =>
            /\ InitArgs(t).f = "init"
            /\ InitArgs(t).C = Arr(args[t].A.data \o args[t].A.data)
            /\ InitArgs(t).lb_C = args[t].b
            /\ InitArgs(t).ub_C = args[t].b

\* C2: G and A both given: C has rows(G) + 2*rows(A) rows, ub_C[:rows(G)] = h,
\* ub_C[rows(G):] = b, lb_C[:rows(G)] is -1e10 throughout, lb_C[rows(G):] = b.
C2_BothBlock ==
    \A t \in Threads :
        (Ran(t) /\ args[t].G # None /\ args[t].A # None) =>
            LET m == Len(args[t].G.data)
                c == InitArgs(t)
            IN  /\ c.f = "init"
                /\ Len(c.C.data) = m + 2 * Len(args[t].A.data)
                /\ SubSeq(c.ub_C.data, 1, m) = args[t].h.data
                /\ From(c.ub_C.data, m) = args[t].b.data
                /\ Len(c.lb_C.data) >= m
                /\ \A i \in 1..m : c.lb_C.data[i] = NegInfty
                /\ From(c.lb_C.data, m) = args[t].b.data

C2_Witness ==
    \E t \in Threads :
        /\ Ran(t) /\ args[t].G # None /\ args[t].A # None
        /\ Len(args[t].G.data) = 2 /\ Len(args[t].A.data) = 2
        /\ args[t].h # args[t].b

\* C3: when init returns a status other than success or cap reached, the
\* call returns None, not a vector.
C3_FailureSurfaced ==
    \A t \in Threads :
        (pc[t] = "done" /\ solvers[locals[t].qp].status \notin {SUCCESSFUL_RETURN, MAX_NWSR_REACHED})
            => result[t] = None

\* C4: in every configuration, when the solver's status is cap reached, the
\* call raises exactly one cap warning, naming 100, and returns the primal
\* solution the solver holds.
C4_CapWarning ==
    \A t \in Threads :
        (pc[t] = "done" /\ solvers[locals[t].qp].status = MAX_NWSR_REACHED) =>
            /\ SelectSeq(warnings[t], LAMBDA w : w.msg = MaxWsrMsg(0).msg) = <<MaxWsrMsg(100)>>
            /\ result[t] = Arr(solvers[locals[t].qp].x)

\* C5: a call given initvals raises exactly one warm-start warning, and its
\* other warnings, its solver calls with their arguments and its result are
\* those of the same call with initvals omitted.
C5_InitvalsIgnored ==
    \A t \in Threads :
        (pc[t] = "done" /\ args[t].initvals # None) =>
            LET omitted == qpoases_solve_qp([args[t] EXCEPT !.initvals = None], oracle[t])
            IN  /\ Len(SelectSeq(warnings[t], LAMBDA w : w = WarmStartMsg)) = 1
                /\ SelectSeq(warnings[t], LAMBDA w : w # WarmStartMsg) = omitted.warnings
                /\ calls[t] = omitted.calls
                /\ result[t] = omitted.result

C5_Witness ==
    \E t \in Threads :
        /\ pc[t] = "done" /\ args[t].initvals # None
        /\ args[t].G # None /\ args[t].A # None
        /\ oracle[t].status = MAX_NWSR_REACHED

\* C6: the bounds-only variant QProblemB is instantiated exactly when G and A
\* are both absent, QProblem otherwise, and the variable bounds lb and ub
\* given to init are null in every configuration.
C6_VariantMatches ==
    \A t \in Threads :
        /\ pc[t] \in {"setOptions", "init", "extract", "done"} =>
              /\ solvers[locals[t].qp].variant \in {"QProblem", "QProblemB"}
              /\ solvers[locals[t].qp].variant = "QProblemB"
                    <=> (args[t].G = None /\ args[t].A = None)
              /\ calls[t][1].f = solvers[locals[t].qp].variant
        /\ Ran(t) =>
              /\ InitArgs(t).lb = None /\ InitArgs(t).ub = None
              /\ InitArgs(t).f = "initB" <=> (args[t].G = None /\ args[t].A = None)
              /\ InitArgs(t).f = "initB" => InitArgs(t).C = Unbound

C6_Witness ==
    /\ \E t \in Threads : Ran(t) /\ args[t].G = None /\ args[t].A # None
                                 /\ solvers[locals[t].qp].variant = "QProblem"
                                 /\ InitArgs(t).lb = None /\ InitArgs(t).ub = None

\* C7: inequality only (G, h given; A, b absent): the solver is given C = G,
\* a null constraint lower bound and constraint upper bound h.
C7_InequalityOnlyBlock ==
    \A t \in Threads :
        (Ran(t) /\ args[t].G # None /\ args[t].A = None) =>
            /\ InitArgs(t).f = "init"
            /\ InitArgs(t).C = args[t].G
            /\ InitArgs(t).lb_C = None
            /\ InitArgs(t).ub_C = args[t].h

C7_Witness ==
    \E t \in Threads :
        /\ Ran(t) /\ args[t].G # None /\ args[t].A = None
        /\ Len(args[t].G.data) = 2
        /\ InitArgs(t).ub_C = args[t].h

\* C8: in any sequence of calls, the solver about to be run is a new object
\* (never run, not the solver of another call), is set to the silent print
\* level, and runs with a cap cell holding 100, whatever the cap cell of the
\* earlier call was left holding.
C8_FreshSilentCapped ==
    \A t \in Threads :
        /\ pc[t] = "init" =>
              /\ solvers[locals[t].qp].ninit = 0
              /\ solvers[locals[t].qp].status = "NOT_INITIALISED"
              /\ solvers[locals[t].qp].printLevel = PrintLevelNONE
              /\ arrays[locals[t].nb_wsr] = <<100>>
        /\ Ran(t) =>
              /\ solvers[locals[t].qp].ninit = 1
              /\ calls[t][2] = [f |-> "setOptions", printLevel |-> PrintLevelNONE]
              /\ InitArgs(t).nWSR = 100

C8_Witness ==
    \E t \in Threads :
        /\ Ran(t) /\ ncalls[t] >= 1
        /\ lastNWSR[t] >= 0 /\ lastNWSR[t] # 100
        /\ InitArgs(t).nWSR = 100

\* C9: under any interleaving of concurrent calls, the module-level options
\* object keeps its initial value (print level NONE), the calls in progress
\* share no solver object, cap cell or output vector, and each finished call
\* has the warnings, solver calls and result of the same call run alone.
C9_ConcurrentCallsIndependent ==
    /\ options = [printLevel |-> PrintLevelNONE]
    /\ \A t \in Threads : \A u \in Threads \ {t} :
          /\ locals[t].qp # 0 => locals[t].qp # locals[u].qp
          /\ locals[t].nb_wsr # 0 => locals[t].nb_wsr \notin {locals[u].nb_wsr, locals[u].x_opt}
          /\ locals[t].x_opt # 0 => locals[t].x_opt \notin {locals[u].nb_wsr, locals[u].x_opt}
    /\ \A t \in Threads :
          pc[t] = "done" =>
              LET alone == qpoases_solve_qp(args[t], oracle[t])
              IN  /\ result[t] = alone.result
                  /\ warnings[t] = alone.warnings
                  /\ calls[t] = alone.calls
                  /\ arrays[locals[t].x_opt] = oracle[t].x

C9_Witness ==
    /\ pc["t1"] = "done" /\ pc["t2"] = "extract"
    /\ ncalls["t1"] >= 1
    /\ oracle["t1"].x # oracle["t2"].x
    /\ locals["t1"].nb_wsr > locals["t2"].nb_wsr

\* C10: with constraints, the problem given to QProblem is dimensionally
\* consistent: the constraint count of the constructor is rows(C), and each
\* constraint bound that is not null has rows(C) entries.
C10_DimensionsConsistent ==
    \A t \in Threads :
        (Ran(t) /\ locals[t].has_cons) =>
            LET c == InitArgs(t)
            IN  /\ calls[t][1].nC = Len(c.C.data)
                /\ c.lb_C # None => Len(c.lb_C.data) = Len(c.C.data)
                /\ c.ub_C # None => Len(c.ub_C.data) = Len(c.C.data)

====
